---- MODULE Spec2Model ----
(***************************************************************************)
(* Model of mplsel/linesel.py: SnapshotBuffer (a bounded deque of list     *)
(* copies) and AxesLineSelector (clipboard, undo buffer, pick callbacks    *)
(* over the line list of one matplotlib Axes).                             *)
(*                                                                         *)
(* A Line2D is an integer identity.  Python lists are sequences; a Python  *)
(* index i is 0-based and may be negative, a TLA+ position is i + 1.       *)
(***************************************************************************)
EXTENDS Integers, Sequences, FiniteSets, TLC

VARIABLES
    lines,            \* self.ax.lines: the Axes' list of Line2D
    line_clipboard,   \* self.line_clipboard
    delete_buffer,    \* self.delete_buffer.item_snapshots (deque, maxlen 25)
    cid,              \* self.cid: None, or the handler the held id is bound to
    callbacks,        \* canvas registry: handler -> number of registrations
    attrs,            \* Line2D -> property name -> value (get_<p> / set_<p>)
    last,             \* the last call: operation, arguments, outcome
    prev,             \* the call before the last one
    max_len,          \* SnapshotBuffer.max_len of the stand-alone buffer
    item_snapshots,   \* SnapshotBuffer.item_snapshots of the stand-alone buffer
    buf_log,          \* calls made on the stand-alone buffer, with outcomes
    ax2_lines,        \* ax2.lines: the list of Line2D of a second Axes
    new_sel,          \* the AxesLineSelector returned by the last paste_selection
    data,             \* Line2D -> its x-y data (get_data)
    snap_limit,       \* the depth the undo buffer is driven to in this behaviour
    heap,             \* list object -> its content, for the lists alive
    ax_ref,           \* the list object self.ax.lines refers to
    buf_refs          \* the list objects held by self.delete_buffer, oldest first

vars == <<lines, line_clipboard, delete_buffer, cid, callbacks, attrs,
          last, prev, max_len, item_snapshots, buf_log,
          ax2_lines, new_sel, data, snap_limit, heap, ax_ref, buf_refs>>

pasteVars == <<ax2_lines, new_sel, data>>
\* the identity of the lists; followed only where SpecAlias asks for it
refVars == <<heap, ax_ref, buf_refs>>
selVars == <<lines, line_clipboard, delete_buffer, cid, callbacks,
             attrs, last, prev, pasteVars, snap_limit, refVars>>
bufVars == <<max_len, item_snapshots, buf_log>>
\* what the calls on one coordinator leave alone, paste_selection apart
restVars == <<bufVars, pasteVars, snap_limit, refVars>>

----------------------------------------------------------------------------
(* Bounds of the model *)

\* number of Line2D the Axes holds when the selector is constructed
MaxSeries == 2
\* longest tuple of indices passed to select_lines_by_inds / delete_lines_by_inds
MaxInds == 2
\* deepest undo buffer the coordinator is driven to
MaxSnaps == 1
\* largest property value passed to setattr_selection
MaxVal == 2
\* largest capacity of a stand-alone SnapshotBuffer
MaxCap == 2
\* number of distinct items snapshotted into the stand-alone buffer
MaxItems == 2
\* number of Line2D the paste_selection calls of one behaviour create
MaxPasted == 2

(* Program constants *)

\* SnapshotBuffer(max_len=25) owned by every AxesLineSelector
DeleteBufferMaxLen == 25

None == "None"

\* the Line2D plotted on self.ax at construction
Series == 1..MaxSeries
\* a pickable Line2D of another Axes of the same figure: the canvas delivers
\* its pick events to every callback connected to the figure's canvas
Foreign == MaxSeries + 1
Artists == Series \cup {Foreign}

LINE_PROPERTIES ==
    {"linewidth", "linestyle", "alpha", "color", "antialiased",
     "dashcapstyle", "dashjoinstyle", "dashOffset", "dashSeq",
     "drawstyle", "label", "marker", "markeredgecolor",
     "markeredgewidth", "markerfacecolor", "markerfacecoloralt",
     "markersize", "markevery", "solidcapstyle", "solidjoinstyle",
     "visible"}

----------------------------------------------------------------------------
(* Python list primitives *)

Range(s) == {s[i] : i \in DOMAIN s}

\* x in s
In(x, s) == \E i \in DOMAIN s : s[i] = x

\* variant: only 0 <= i < len(s) is an index
ValidIndexNonNegative(s, i) == i >= 0 /\ i < Len(s)

\* s[i] for a Python index i: defined for -len(s) <= i < len(s)
ValidIndex(s, i) == i >= -Len(s) /\ i < Len(s)
GetItem(s, i) == IF i >= 0 THEN s[i + 1] ELSE s[Len(s) + i + 1]

\* s.remove(x): drops the first occurrence of x
RECURSIVE Remove(_, _)
Remove(s, x) ==
    IF s = <<>> THEN <<>>
    ELSE IF Head(s) = x THEN Tail(s)
    ELSE <<Head(s)>> \o Remove(Tail(s), x)

\* s.pop(): all but the last element
PopLast(s) == SubSeq(s, 1, Len(s) - 1)

NoDuplicates(s) == \A i, j \in DOMAIN s : s[i] = s[j] => i = j

\* all tuples over S of length 0..n
RECURSIVE TuplesUpTo(_, _)
TuplesUpTo(S, n) ==
    IF n = 0 THEN {<<>>}
    ELSE LET shorter == TuplesUpTo(S, n - 1)
         IN  shorter \cup {Append(t, x) : t \in {u \in shorter : Len(u) = n - 1}, x \in S}

----------------------------------------------------------------------------
(* SnapshotBuffer *)

\* variant: a full buffer keeps its entries and drops the new one
snapshot_drop_new(buf, items, cap) ==
    IF Len(buf) >= cap THEN buf ELSE Append(buf, items)

\* deque(maxlen=cap).append(items.copy()): a full deque drops its oldest entry
snapshot(buf, items, cap) ==
    IF Len(buf) >= cap THEN Append(Tail(buf), items) ELSE Append(buf, items)

\* deque.pop(): the most recent entry; raises IndexError on an empty deque
rewind(buf) == buf[Len(buf)]
rewound(buf) == PopLast(buf)

\* the lists snapshotted into the stand-alone buffer
Items == {<<k>> : k \in 1..MaxItems}

\* SnapshotBuffer(max_len)
InitBuf ==
    /\ max_len \in 1..MaxCap
    /\ item_snapshots = <<>>
    /\ buf_log = <<>>

\* enough calls to overfill the buffer and then empty it
MaxBufOps == 2 * (max_len + 1)

\* SnapshotBuffer.snapshot(items)
buf_snapshot(items) ==
    /\ Len(buf_log) < MaxBufOps
    /\ item_snapshots' = snapshot(item_snapshots, items, max_len)
    /\ buf_log' = Append(buf_log, [op |-> "snapshot", items |-> items,
                                   result |-> "ok", ret |-> <<>>,
                                   before |-> item_snapshots])
    /\ UNCHANGED max_len

\* SnapshotBuffer.rewind()
buf_rewind ==
    /\ Len(buf_log) < MaxBufOps
    /\ IF Len(item_snapshots) = 0
       THEN /\ buf_log' = Append(buf_log, [op |-> "rewind", items |-> <<>>,
                                           result |-> "IndexError", ret |-> <<>>,
                                           before |-> item_snapshots])
            /\ UNCHANGED item_snapshots
       ELSE /\ buf_log' = Append(buf_log, [op |-> "rewind", items |-> <<>>,
                                           result |-> "ok",
                                           ret |-> rewind(item_snapshots),
                                           before |-> item_snapshots])
            /\ item_snapshots' = rewound(item_snapshots)
    /\ UNCHANGED max_len

\* SnapshotBuffer.__len__()
buf_len == Len(item_snapshots)

----------------------------------------------------------------------------
(* AxesLineSelector: state after __init__ and the record of a call *)

\* property names offered to setattr_selection / getattr_selection: one of
\* LINE_PROPERTIES and one outside it
AttrNames == {"linewidth", "zorder"}

\* every Line2D starts with property values that tell the lines apart; the
\* properties kept are those of LINE_PROPERTIES that the calls name
InitAttrs == [a \in Artists |-> [p \in LINE_PROPERTIES \cap AttrNames |-> 10 * a]]

\* every Line2D starts with x-y data of its own
InitData == [a \in Artists |-> 100 + a]

\* the observable state a call starts from
Before ==
    [lines |-> lines, line_clipboard |-> line_clipboard,
     delete_buffer |-> delete_buffer, attrs |-> attrs, cid |-> cid,
     callbacks |-> callbacks, ax2_lines |-> ax2_lines]

\* a call of `op` that returns normally, takes no argument, requests no redraw
Call(op) ==
    [op |-> op, inds |-> <<>>, artist |-> 0, attr |-> "", vkind |-> "", ax |-> "",
     vals |-> <<>>, sel |-> {}, result |-> "ok", ret |-> <<>>, redraws |-> 0,
     calls |-> <<>>, before |-> Before]

\* AxesLineSelector(ax) on an Axes that holds n lines, in a figure whose
\* second Axes holds the line Foreign; the undo buffer is driven to depth limit
InitSelector(n, limit) ==
    /\ lines = [i \in 1..n |-> i]
    /\ ax2_lines = <<Foreign>>
    /\ new_sel = None
    /\ data = InitData
    /\ snap_limit = limit
    /\ heap = (1 :> [i \in 1..n |-> i])
    /\ ax_ref = 1
    /\ buf_refs = <<>>
    /\ line_clipboard = <<>>
    /\ delete_buffer = <<>>
    /\ cid = None
    /\ callbacks = [h \in {"_select_callback", "_delete_callback"} |-> 0]
    /\ attrs = InitAttrs
    /\ last = Call("__init__")
    /\ prev = last

InitWith(n) == InitSelector(n, MaxSnaps)

InitSel == InitWith(MaxSeries)

\* no stand-alone buffer is in use
NoBuf ==
    /\ max_len = 1
    /\ item_snapshots = <<>>
    /\ buf_log = <<>>

Init == InitSel /\ NoBuf

----------------------------------------------------------------------------
(* Inputs *)

\* Python indices offered to the by-index calls: negative, valid, out of range
Indices == -1..MaxSeries
IndexTuples == TuplesUpTo(Indices, MaxInds)

\* orderings offered to reorder_lines on an Axes constructed with n lines:
\* too short, too long, with repeats, and (after a deletion) out of range
Orders(n) == TuplesUpTo(0..(n - 1), n + 1)

\* a selection function sel_fn(line, i), given by the lines it accepts
SelFns == SUBSET Series

----------------------------------------------------------------------------
(* Selection *)

\* variant: append without the membership test
_add_line_always(clip, line) == Append(clip, line)

\* _add_line_to_clipboard: append unless already present
_add_line_to_clipboard(clip, line) ==
    IF ~In(line, clip) THEN Append(clip, line) ELSE clip

\* the loop of select_lines_by_inds: self.ax.lines[ind] raises IndexError at
\* the first index out of range, after the earlier indices were added
RECURSIVE AddByInds(_, _, _)
AddByInds(clip, ls, inds) ==
    IF inds = <<>> THEN [clip |-> clip, result |-> "ok"]
    ELSE IF ~ValidIndex(ls, Head(inds)) THEN [clip |-> clip, result |-> "IndexError"]
    ELSE AddByInds(_add_line_to_clipboard(clip, GetItem(ls, Head(inds))), ls, Tail(inds))

\* variant: the lines are visited last first
RECURSIVE AddWhereReversed(_, _, _)
AddWhereReversed(clip, ls, accepted) ==
    IF ls = <<>> THEN clip
    ELSE AddWhereReversed(IF ls[Len(ls)] \in accepted
                             THEN _add_line_to_clipboard(clip, ls[Len(ls)]) ELSE clip,
                          PopLast(ls), accepted)

\* the loop of select_all_lines / select_lines over self.ax.lines, in list order
RECURSIVE AddWhere(_, _, _)
AddWhere(clip, ls, accepted) ==
    IF ls = <<>> THEN clip
    ELSE AddWhere(IF Head(ls) \in accepted
                     THEN _add_line_to_clipboard(clip, Head(ls)) ELSE clip,
                  Tail(ls), accepted)

\* the clipboard select_lines_by_inds(*inds) leaves and how the call ends
SelectByInds(clip, ls, inds) ==
    IF Len(inds) < 1 THEN [clip |-> clip, result |-> "ValueError"]
    ELSE AddByInds(clip, ls, inds)

select_lines_by_inds(inds) ==
    /\ LET r == SelectByInds(line_clipboard, lines, inds)
       IN  /\ line_clipboard' = r.clip
           /\ last' = [Call("select_lines_by_inds") EXCEPT
                          !.inds = inds, !.result = r.result]
    /\ UNCHANGED <<lines, delete_buffer, cid, callbacks, attrs>>

select_all_lines ==
    /\ line_clipboard' = AddWhere(line_clipboard, lines, Range(lines))
    /\ last' = Call("select_all_lines")
    /\ UNCHANGED <<lines, delete_buffer, cid, callbacks, attrs>>

select_lines(sel_fn) ==
    /\ line_clipboard' = AddWhere(line_clipboard, lines, sel_fn)
    /\ last' = [Call("select_lines") EXCEPT !.sel = sel_fn]
    /\ UNCHANGED <<lines, delete_buffer, cid, callbacks, attrs>>

\* prints a notice on an empty clipboard and then pops all the same:
\* list.pop() on an empty list raises IndexError
undo_last_selection ==
    /\ IF Len(line_clipboard) = 0
       THEN /\ last' = [Call("undo_last_selection") EXCEPT !.result = "IndexError"]
            /\ UNCHANGED line_clipboard
       ELSE /\ line_clipboard' = PopLast(line_clipboard)
            /\ last' = Call("undo_last_selection")
    /\ UNCHANGED <<lines, delete_buffer, cid, callbacks, attrs>>

clear_clipboard ==
    /\ line_clipboard' = <<>>
    /\ last' = Call("clear_clipboard")
    /\ UNCHANGED <<lines, delete_buffer, cid, callbacks, attrs>>

----------------------------------------------------------------------------
(* Deletion and undo *)

\* the model drives the undo buffer no deeper than snap_limit (MaxSnaps, or
\* past the capacity where a full buffer is wanted)
CanSnapshot == Len(delete_buffer) < snap_limit

\* _delete_line: remove the line if present (else skip); redraws either way
_delete_line(ls, line) == IF In(line, ls) THEN Remove(ls, line) ELSE ls

\* the loop of delete_all_lines: delete the last line until none is left
RECURSIVE DeleteAllLoop(_, _)
DeleteAllLoop(ls, n) ==
    IF Len(ls) > 0
    THEN DeleteAllLoop(_delete_line(ls, ls[Len(ls)]), n + 1)
    ELSE [lines |-> ls, redraws |-> n]

\* variant: the loop ends at the first clipboard entry that is not in the list
RECURSIVE DeleteSelectionLoopAborting(_, _, _)
DeleteSelectionLoopAborting(ls, clip, calls) ==
    IF Len(clip) > 0 /\ In(Head(clip), ls)
    THEN DeleteSelectionLoopAborting(_delete_line(ls, Head(clip)), Tail(clip),
                                     Append(calls, Head(clip)))
    ELSE [lines |-> ls, line_clipboard |-> clip, calls |-> calls,
          redraws |-> Len(calls)]

\* the loop of delete_selection: pop the first clipboard entry and hand it to
\* _delete_line (one redraw each); calls lists the lines handed over, in order
RECURSIVE DeleteSelectionLoop(_, _, _)
DeleteSelectionLoop(ls, clip, calls) ==
    IF Len(clip) > 0
    THEN DeleteSelectionLoop(_delete_line(ls, Head(clip)), Tail(clip),
                             Append(calls, Head(clip)))
    ELSE [lines |-> ls, line_clipboard |-> clip, calls |-> calls,
          redraws |-> Len(calls)]

\* variant: a negative index counts from the end of the list
KeepNotInWrapping(ls, inds) ==
    LET F[k \in 0..Len(ls)] ==
            IF k = 0 THEN <<>>
            ELSE IF ~In(k - 1, inds) /\ ~In(k - 1 - Len(ls), inds)
                 THEN Append(F[k - 1], ls[k]) ELSE F[k - 1]
    IN  F[Len(ls)]

\* the loop of delete_lines_by_inds: keep ls[i] unless i is one of inds
KeepNotIn(ls, inds) ==
    LET F[k \in 0..Len(ls)] ==
            IF k = 0 THEN <<>>
            ELSE IF ~In(k - 1, inds) THEN Append(F[k - 1], ls[k]) ELSE F[k - 1]
    IN  F[Len(ls)]

\* variant: no snapshot is taken of an empty list
delete_all_lines_snapshot_if_any ==
    /\ CanSnapshot
    /\ delete_buffer' = IF Len(lines) > 0
                        THEN snapshot(delete_buffer, lines, DeleteBufferMaxLen)
                        ELSE delete_buffer
    /\ LET r == DeleteAllLoop(lines, 0)
       IN  /\ lines' = r.lines
           /\ last' = [Call("delete_all_lines") EXCEPT !.redraws = r.redraws]
    /\ UNCHANGED <<line_clipboard, cid, callbacks, attrs>>

\* variant: the deleted lines are dropped from the clipboard as well
delete_all_lines_clearing_clipboard ==
    /\ CanSnapshot
    /\ delete_buffer' = snapshot(delete_buffer, lines, DeleteBufferMaxLen)
    /\ LET r == DeleteAllLoop(lines, 0)
       IN  /\ lines' = r.lines
           /\ last' = [Call("delete_all_lines") EXCEPT !.redraws = r.redraws]
    /\ line_clipboard' = SelectSeq(line_clipboard, LAMBDA a : ~In(a, lines))
    /\ UNCHANGED <<cid, callbacks, attrs>>

delete_all_lines ==
    /\ CanSnapshot
    /\ delete_buffer' = snapshot(delete_buffer, lines, DeleteBufferMaxLen)
    /\ LET r == DeleteAllLoop(lines, 0)
       IN  /\ lines' = r.lines
           /\ last' = [Call("delete_all_lines") EXCEPT !.redraws = r.redraws]
    /\ UNCHANGED <<line_clipboard, cid, callbacks, attrs>>

\* variant: the clipboard is read, not consumed
delete_selection_keeping_clipboard ==
    /\ CanSnapshot
    /\ delete_buffer' = snapshot(delete_buffer, lines, DeleteBufferMaxLen)
    /\ LET r == DeleteSelectionLoop(lines, line_clipboard, <<>>)
       IN  /\ lines' = r.lines
           /\ last' = [Call("delete_selection") EXCEPT
                          !.calls = r.calls, !.redraws = r.redraws]
    /\ UNCHANGED <<line_clipboard, cid, callbacks, attrs>>

delete_selection ==
    /\ CanSnapshot
    /\ delete_buffer' = snapshot(delete_buffer, lines, DeleteBufferMaxLen)
    /\ LET r == DeleteSelectionLoop(lines, line_clipboard, <<>>)
       IN  /\ lines' = r.lines
           /\ line_clipboard' = r.line_clipboard
           /\ last' = [Call("delete_selection") EXCEPT
                          !.calls = r.calls, !.redraws = r.redraws]
    /\ UNCHANGED <<cid, callbacks, attrs>>

\* variant: the snapshot is taken before the arguments are validated
delete_lines_by_inds_snapshot_first(inds) ==
    /\ CanSnapshot
    /\ delete_buffer' = snapshot(delete_buffer, lines, DeleteBufferMaxLen)
    /\ IF Len(inds) < 1
       THEN /\ last' = [Call("delete_lines_by_inds") EXCEPT
                           !.inds = inds, !.result = "ValueError"]
            /\ UNCHANGED lines
       ELSE /\ lines' = KeepNotIn(lines, inds)
            /\ last' = [Call("delete_lines_by_inds") EXCEPT
                           !.inds = inds, !.redraws = 1]
    /\ UNCHANGED <<line_clipboard, cid, callbacks, attrs>>

\* variant: the snapshot is taken of the list after the deletion
delete_lines_by_inds_snapshot_late(inds) ==
    IF Len(inds) < 1
    THEN /\ last' = [Call("delete_lines_by_inds") EXCEPT
                        !.inds = inds, !.result = "ValueError"]
         /\ UNCHANGED <<lines, line_clipboard, delete_buffer, cid, callbacks,
                        attrs>>
    ELSE /\ CanSnapshot
         /\ lines' = KeepNotIn(lines, inds)
         /\ delete_buffer' = snapshot(delete_buffer, lines', DeleteBufferMaxLen)
         /\ last' = [Call("delete_lines_by_inds") EXCEPT
                        !.inds = inds, !.redraws = 1]
         /\ UNCHANGED <<line_clipboard, cid, callbacks, attrs>>

delete_lines_by_inds(inds) ==
    IF Len(inds) < 1
    THEN /\ last' = [Call("delete_lines_by_inds") EXCEPT
                        !.inds = inds, !.result = "ValueError"]
         /\ UNCHANGED <<lines, line_clipboard, delete_buffer, cid, callbacks, attrs>>
    ELSE /\ CanSnapshot
         /\ delete_buffer' = snapshot(delete_buffer, lines, DeleteBufferMaxLen)
         /\ lines' = KeepNotIn(lines, inds)
         /\ last' = [Call("delete_lines_by_inds") EXCEPT
                        !.inds = inds, !.redraws = 1]
         /\ UNCHANGED <<line_clipboard, cid, callbacks, attrs>>

\* variant: rewinds without testing for an empty buffer
undo_last_delete_unguarded ==
    /\ IF Len(delete_buffer) = 0
       THEN /\ last' = [Call("undo_last_delete") EXCEPT !.result = "IndexError"]
            /\ UNCHANGED <<lines, delete_buffer>>
       ELSE /\ lines' = rewind(delete_buffer)
            /\ delete_buffer' = rewound(delete_buffer)
            /\ last' = [Call("undo_last_delete") EXCEPT !.redraws = 1]
    /\ UNCHANGED <<line_clipboard, cid, callbacks, attrs>>

undo_last_delete ==
    /\ IF Len(delete_buffer) = 0
       THEN /\ last' = Call("undo_last_delete")
            /\ UNCHANGED <<lines, delete_buffer>>
       ELSE /\ lines' = rewind(delete_buffer)
            /\ delete_buffer' = rewound(delete_buffer)
            /\ last' = [Call("undo_last_delete") EXCEPT !.redraws = 1]
    /\ UNCHANGED <<line_clipboard, cid, callbacks, attrs>>

\* variant: the most recent snapshot is restored and the others are dropped
UndoAllLoopNewest(ls, buf, n) ==
    IF n = 0 THEN [lines |-> ls, delete_buffer |-> buf]
    ELSE [lines |-> rewind(buf), delete_buffer |-> <<>>]

\* the loop of undo_all_delete: one rewind per buffered snapshot
RECURSIVE UndoAllLoop(_, _, _)
UndoAllLoop(ls, buf, n) ==
    IF n = 0 THEN [lines |-> ls, delete_buffer |-> buf]
    ELSE UndoAllLoop(rewind(buf), rewound(buf), n - 1)

undo_all_delete ==
    /\ LET r == UndoAllLoop(lines, delete_buffer, Len(delete_buffer))
       IN  /\ lines' = r.lines
           /\ delete_buffer' = r.delete_buffer
    /\ last' = [Call("undo_all_delete") EXCEPT !.redraws = 1]
    /\ UNCHANGED <<line_clipboard, cid, callbacks, attrs>>

----------------------------------------------------------------------------
(* Reordering *)

\* variant: new_lines[old_ind] = self.ax.lines[new_ind]
RECURSIVE ReorderLoopInverse(_, _, _, _)
ReorderLoopInverse(new_lines, ls, order, old_ind) ==
    IF old_ind >= Len(order) THEN [lines |-> new_lines, result |-> "ok"]
    ELSE IF ~ValidIndex(ls, old_ind) THEN [lines |-> ls, result |-> "IndexError"]
    ELSE ReorderLoopInverse([new_lines EXCEPT ![old_ind + 1] = ls[order[old_ind + 1] + 1]],
                            ls, order, old_ind + 1)

\* the loop of reorder_lines: new_lines[new_ind] = self.ax.lines[old_ind] for
\* old_ind, new_ind in enumerate(order); self.ax.lines[old_ind] raises
\* IndexError once old_ind reaches len(self.ax.lines).  0 stands for None.
RECURSIVE ReorderLoop(_, _, _, _)
ReorderLoop(new_lines, ls, order, old_ind) ==
    IF old_ind >= Len(order) THEN [lines |-> new_lines, result |-> "ok"]
    ELSE IF ~ValidIndex(ls, old_ind) THEN [lines |-> ls, result |-> "IndexError"]
    ELSE ReorderLoop([new_lines EXCEPT ![order[old_ind + 1] + 1] = ls[old_ind + 1]],
                     ls, order, old_ind + 1)

reorder_lines(order) ==
    /\ IF Range(order) # 0..(Len(lines) - 1)
       THEN /\ last' = [Call("reorder_lines") EXCEPT
                           !.inds = order, !.result = "AssertionError"]
            /\ UNCHANGED lines
       ELSE LET r == ReorderLoop([i \in 1..Len(lines) |-> 0], lines, order, 0)
            IN  /\ lines' = r.lines
                /\ last' = [Call("reorder_lines") EXCEPT
                               !.inds = order, !.result = r.result,
                               !.redraws = IF r.result = "ok" THEN 1 ELSE 0]
    /\ UNCHANGED <<line_clipboard, delete_buffer, cid, callbacks, attrs>>

----------------------------------------------------------------------------
(* Interactive mode *)

\* variant: the held callback is never disconnected
Disconnected_never == callbacks

\* _disconnect_current_callback: mpl_disconnect(self.cid) if a callback is held
Disconnected == IF cid # None THEN [callbacks EXCEPT ![cid] = @ - 1] ELSE callbacks

\* interactive_select / interactive_delete: disconnect, mpl_connect the handler
\* and keep its id.  ln.set_picker(self.picker_arg) on every current line adds
\* to the lines the canvas may report (Pickable); a line may as well have been
\* plotted with a picker, so Pickable does not depend on these calls.
Connect(op, handler) ==
    /\ callbacks' = [Disconnected EXCEPT ![handler] = @ + 1]
    /\ cid' = handler
    /\ last' = Call(op)
    /\ UNCHANGED <<lines, line_clipboard, delete_buffer, attrs>>

interactive_select == Connect("interactive_select", "_select_callback")

interactive_delete == Connect("interactive_delete", "_delete_callback")

disable_interactive ==
    /\ callbacks' = Disconnected
    /\ cid' = None
    /\ last' = Call("disable_interactive")
    /\ UNCHANGED <<lines, line_clipboard, delete_buffer, attrs>>

\* the artists the canvas can report in a pick event: a drawn line of this
\* Axes, or the pickable line of another Axes of the figure
Pickable == Range(lines) \cup {Foreign}

\* pick event delivered to a registered _select_callback
_select_callback(artist) ==
    /\ callbacks["_select_callback"] > 0
    /\ artist \in Pickable
    /\ line_clipboard' = _add_line_to_clipboard(line_clipboard, artist)
    /\ last' = [Call("_select_callback") EXCEPT !.artist = artist]
    /\ UNCHANGED <<lines, delete_buffer, cid, callbacks, attrs>>

\* pick event delivered to a registered _delete_callback
_delete_callback(artist) ==
    /\ callbacks["_delete_callback"] > 0
    /\ artist \in Pickable
    /\ CanSnapshot
    /\ delete_buffer' = snapshot(delete_buffer, lines, DeleteBufferMaxLen)
    /\ lines' = _delete_line(lines, artist)
    /\ last' = [Call("_delete_callback") EXCEPT !.artist = artist, !.redraws = 1]
    /\ UNCHANGED <<line_clipboard, cid, callbacks, attrs>>

----------------------------------------------------------------------------
(* Line properties *)

Values == 1..MaxVal
ValueTuples == TuplesUpTo(Values, MaxSeries + 1)

\* the callable offered as value: depends on the line and on its index
Fn(ln, i) == 1 + ((ln + i) % MaxVal)

\* value = tuple([value(ln, i) for i, ln in enumerate(self.line_clipboard)])
FnValues(clip) == [k \in 1..Len(clip) |-> Fn(clip[k], k - 1)]
FnCalls(clip) == [k \in 1..Len(clip) |-> <<clip[k], k - 1>>]

\* value = tuple([value] * len(self.line_clipboard))
Repeat(v, clip) == [k \in 1..Len(clip) |-> v]

\* variant: every line gets the first value
RECURSIVE SetLoopFirst(_, _, _, _)
SetLoopFirst(at, clip, value, attr) ==
    IF clip = <<>> \/ value = <<>> THEN at
    ELSE SetLoopFirst([at EXCEPT ![Head(clip)][attr] = Head(value)],
                      Tail(clip), value, attr)

\* for ln, val in zip(self.line_clipboard, value): ln.set_<attr>(val)
RECURSIVE SetLoop(_, _, _, _)
SetLoop(at, clip, value, attr) ==
    IF clip = <<>> \/ value = <<>> THEN at
    ELSE SetLoop([at EXCEPT ![Head(clip)][attr] = Head(value)],
                 Tail(clip), Tail(value), attr)

\* setattr_selection(attr, value); kind tells a tuple, a callable, any other value
setattr_selection(attr, kind, value) ==
    /\ LET call == [Call("setattr_selection") EXCEPT
                       !.attr = attr, !.vkind = kind, !.vals = value]
           fail == /\ last' = [call EXCEPT !.result = "AssertionError"]
                   /\ UNCHANGED attrs
           assign(vs, calls) ==
                   /\ attrs' = SetLoop(attrs, line_clipboard, vs, attr)
                   /\ last' = [call EXCEPT !.calls = calls, !.redraws = 1]
       IN  IF attr \notin LINE_PROPERTIES THEN fail
           ELSE IF kind = "tuple"
                THEN IF Len(value) # Len(line_clipboard) THEN fail
                     ELSE assign(value, <<>>)
           ELSE IF kind = "callable"
                THEN assign(FnValues(line_clipboard), FnCalls(line_clipboard))
           ELSE assign(Repeat(value[1], line_clipboard), <<>>)
    /\ UNCHANGED <<lines, line_clipboard, delete_buffer, cid, callbacks>>

\* the arguments offered: (kind, value)
SetattrValues ==
    {<<"tuple", t>> : t \in ValueTuples}
      \cup {<<"single", <<v>>>> : v \in Values}
      \cup {<<"callable", <<>>>>}

\* variant: the values are collected last line first
GetLoopReversed(at, clip, attr) ==
    [k \in 1..Len(clip) |-> at[clip[Len(clip) + 1 - k]][attr]]

\* retval.append(ln.get_<attr>()) for ln in self.line_clipboard
GetLoop(at, clip, attr) == [k \in 1..Len(clip) |-> at[clip[k]][attr]]

getattr_selection(attr) ==
    /\ IF attr \notin LINE_PROPERTIES
       THEN last' = [Call("getattr_selection") EXCEPT
                        !.attr = attr, !.result = "AssertionError"]
       ELSE last' = [Call("getattr_selection") EXCEPT
                        !.attr = attr, !.ret = GetLoop(attrs, line_clipboard, attr)]
    /\ UNCHANGED <<lines, line_clipboard, delete_buffer, cid, callbacks,
                   attrs>>

----------------------------------------------------------------------------
(* Paste *)

\* the Axes offered to paste_selection: self.ax, or the second Axes
Axes == {"ax", "ax2"}

\* the Line2D known so far are 1..n; ax.plot(...)[0] creates the next one
Fresh(k) == Cardinality(DOMAIN attrs) + k

\* new_sel_line_clipboard: one new Line2D per clipboard line, in clipboard order
NewLines(clip) == [k \in 1..Len(clip) |-> Fresh(k)]

\* the clipboard line the new Line2D a is made from
Source(clip, a) == clip[a - Cardinality(DOMAIN attrs)]

\* new_l = ax.plot(*ln.get_data())[0]: the new line carries the data of ln
PastedData(clip) ==
    [a \in DOMAIN data \cup Range(NewLines(clip)) |->
        IF a \in DOMAIN data THEN data[a] ELSE data[Source(clip, a)]]

\* variant: every new line takes the properties of the first clipboard line
PastedAttrsOfFirst(clip) ==
    [a \in DOMAIN attrs \cup Range(NewLines(clip)) |->
        IF a \in DOMAIN attrs THEN attrs[a]
        ELSE [p \in DOMAIN attrs[clip[1]] |-> attrs[clip[1]][p]]]

\* setattr(new_l, '_<p>', getattr(ln, '_<p>')) for every p of LINE_PROPERTIES
PastedAttrs(clip) ==
    [a \in DOMAIN attrs \cup Range(NewLines(clip)) |->
        IF a \in DOMAIN attrs THEN attrs[a]
        ELSE [p \in DOMAIN attrs[Source(clip, a)] |-> attrs[Source(clip, a)][p]]]

\* AxesLineSelector(ax=ax, picker_arg=self.picker_arg) with the given clipboard
NewSelector(ax, clip) ==
    [ax |-> ax, line_clipboard |-> clip, delete_buffer |-> <<>>, cid |-> None]

\* variant: the new lines are appended to self.ax.lines whatever ax is
paste_selection_into_own(ax) ==
    /\ Cardinality(DOMAIN attrs) + Len(line_clipboard)
          <= Cardinality(Artists) + MaxPasted
    /\ LET new == NewLines(line_clipboard)
       IN  /\ lines' = lines \o new /\ UNCHANGED ax2_lines
           /\ new_sel' = NewSelector(ax, new)
    /\ attrs' = PastedAttrs(line_clipboard)
    /\ data' = PastedData(line_clipboard)
    /\ last' = [Call("paste_selection") EXCEPT !.ax = ax, !.redraws = 1]
    /\ UNCHANGED <<line_clipboard, delete_buffer, cid, callbacks>>

\* paste_selection(ax): ax.plot appends each new line to ax.lines, which is
\* self.ax.lines when ax is the coordinator's own Axes; one redraw of ax
paste_selection(ax) ==
    /\ Cardinality(DOMAIN attrs) + Len(line_clipboard)
          <= Cardinality(Artists) + MaxPasted
    /\ LET new == NewLines(line_clipboard)
       IN  /\ IF ax = "ax"
              THEN lines' = lines \o new /\ UNCHANGED ax2_lines
              ELSE ax2_lines' = ax2_lines \o new /\ UNCHANGED lines
           /\ new_sel' = NewSelector(ax, new)
    /\ attrs' = PastedAttrs(line_clipboard)
    /\ data' = PastedData(line_clipboard)
    /\ last' = [Call("paste_selection") EXCEPT !.ax = ax, !.redraws = 1]
    /\ UNCHANGED <<line_clipboard, delete_buffer, cid, callbacks>>

----------------------------------------------------------------------------
(* Specification of the coordinator *)

Next ==
    \/ \E inds \in IndexTuples : select_lines_by_inds(inds)
    \/ \E sel_fn \in SelFns : select_lines(sel_fn)
    \/ select_all_lines
    \/ undo_last_selection
    \/ clear_clipboard
    \/ delete_all_lines
    \/ delete_selection
    \/ \E inds \in IndexTuples : delete_lines_by_inds(inds)
    \/ undo_last_delete
    \/ undo_all_delete
    \/ \E order \in Orders(MaxSeries) : reorder_lines(order)
    \/ interactive_select
    \/ interactive_delete
    \/ disable_interactive
    \/ \E artist \in Artists : _select_callback(artist)
    \/ \E artist \in Artists : _delete_callback(artist)
    \/ \E attr \in AttrNames : getattr_selection(attr)

SelNext == Next /\ UNCHANGED <<prev, restVars>>

Spec == Init /\ [][SelNext]_vars

----------------------------------------------------------------------------
(* Specification of a stand-alone SnapshotBuffer *)

BufNext ==
    \/ \E items \in Items : buf_snapshot(items)
    \/ buf_rewind

BufInit == InitSel /\ InitBuf

SpecBuf == BufInit /\ [][BufNext /\ UNCHANGED selVars]_vars

----------------------------------------------------------------------------
(* Specification of reordering: the Axes holds any number of the artists *)

InitAll == NoBuf /\ \E n \in 0..(MaxSeries + 1) : InitWith(n)

ReorderNext ==
    \/ \E order \in Orders(MaxSeries + 1) : reorder_lines(order)
    \/ select_all_lines
    \/ delete_selection
    \/ undo_last_delete

SpecReorder ==
    InitAll /\ [][ReorderNext /\ UNCHANGED <<prev, restVars>>]_vars

----------------------------------------------------------------------------
(* Specification of the line properties of the selection *)

AttrNext ==
    \/ \E inds \in IndexTuples : select_lines_by_inds(inds)
    \/ clear_clipboard
    \/ \E inds \in IndexTuples : delete_lines_by_inds(inds)
    \/ undo_last_delete
    \/ \E attr \in AttrNames, kv \in SetattrValues :
          setattr_selection(attr, kv[1], kv[2])
    \/ \E attr \in AttrNames : getattr_selection(attr)

SpecAttr == Init /\ [][AttrNext /\ UNCHANGED <<prev, restVars>>]_vars

----------------------------------------------------------------------------
(* Specification of deletion by index: the Axes holds any number of the artists *)

DeleteNext ==
    \/ \E inds \in IndexTuples : delete_lines_by_inds(inds)
    \/ undo_last_delete
    \/ undo_all_delete
    \/ select_all_lines

SpecDelete ==
    InitAll /\ [][DeleteNext /\ UNCHANGED <<prev, restVars>>]_vars

----------------------------------------------------------------------------
(* Specification of the undo buffer driven past its capacity *)

\* one snapshot more than the buffer holds
DeepLimit == DeleteBufferMaxLen + 1

InitDeep == NoBuf /\ InitSelector(MaxSeries, DeepLimit)

DeepNext ==
    \/ interactive_delete
    \/ \E artist \in Artists : _delete_callback(artist)
    \/ undo_last_delete
    \/ undo_all_delete

SpecDeep ==
    InitDeep /\ [][DeepNext /\ UNCHANGED <<prev, restVars>>]_vars

----------------------------------------------------------------------------
(* Identity of the lists: which list object self.ax.lines and the entries   *)
(* of the undo buffer are, next to what they hold                           *)

\* the list objects still referred to by ax.lines or by the deque
Live(h, ax, refs) == [r \in {ax} \cup Range(refs) |-> h[r]]

\* a list object that is not alive
NewRef(h) ==
    CHOOSE r \in 1..(Cardinality(DOMAIN h) + 1) :
        r \notin DOMAIN h /\ \A q \in 1..(r - 1) : q \in DOMAIN h

\* variant: the deque keeps the list it is given, not a copy
ref_snapshot_shared(h, refs, r) ==
    [heap |-> h, refs |-> snapshot(refs, r, DeleteBufferMaxLen)]

\* self.item_snapshots.append(items.copy()): the deque gets a new list
\* object that holds what the list r holds
ref_snapshot(h, refs, r) ==
    LET n == NewRef(h)
    IN  [heap |-> (n :> h[r]) @@ h,
         refs |-> snapshot(refs, n, DeleteBufferMaxLen)]

\* snapshot, then self.ax.lines.remove(line): the list object stays, its
\* content becomes that of the list after the call
RefSnapshotThenRemove ==
    LET s == ref_snapshot(heap, buf_refs, ax_ref)
    IN  /\ buf_refs' = s.refs
        /\ ax_ref' = ax_ref
        /\ heap' = Live([s.heap EXCEPT ![ax_ref] = lines'], ax_ref, s.refs)

\* self.ax.lines = new_lines: a new list object
RefAssignNew(h, refs) ==
    LET n == NewRef(h)
    IN  /\ buf_refs' = refs
        /\ ax_ref' = n
        /\ heap' = Live((n :> lines') @@ h, n, refs)

\* delete_lines_by_inds: nothing before the argument check; then snapshot
\* and self.ax.lines = new_lines
RefSnapshotThenAssign ==
    IF last'.result # "ok" THEN UNCHANGED refVars
    ELSE LET s == ref_snapshot(heap, buf_refs, ax_ref)
         IN  RefAssignNew(s.heap, s.refs)

\* reorder_lines: self.ax.lines = new_lines once the loop has ended
RefAssign ==
    IF last'.result # "ok" THEN UNCHANGED refVars
    ELSE RefAssignNew(heap, buf_refs)

\* undo_last_delete: self.ax.lines = self.delete_buffer.rewind(), the list
\* object popped from the deque
RefRewind ==
    IF Len(buf_refs) = 0 THEN UNCHANGED refVars
    ELSE /\ ax_ref' = rewind(buf_refs)
         /\ buf_refs' = rewound(buf_refs)
         /\ heap' = Live(heap, ax_ref', buf_refs')

\* undo_all_delete: the last list object popped is the oldest one
RefRewindAll ==
    IF Len(buf_refs) = 0 THEN UNCHANGED refVars
    ELSE /\ ax_ref' = buf_refs[1]
         /\ buf_refs' = <<>>
         /\ heap' = Live(heap, ax_ref', buf_refs')

\* the buffer is driven one snapshot deeper than elsewhere, so that a
\* snapshot stays in it when another is popped
InitAlias == NoBuf /\ InitSelector(MaxSeries, MaxSnaps + 1)

AliasNext ==
    \/ select_all_lines /\ UNCHANGED refVars
    \/ interactive_delete /\ UNCHANGED refVars
    \/ delete_selection /\ RefSnapshotThenRemove
    \/ delete_all_lines /\ RefSnapshotThenRemove
    \/ \E artist \in Artists : _delete_callback(artist) /\ RefSnapshotThenRemove
    \/ \E inds \in IndexTuples : delete_lines_by_inds(inds) /\ RefSnapshotThenAssign
    \/ \E order \in Orders(MaxSeries) : reorder_lines(order) /\ RefAssign
    \/ undo_last_delete /\ RefRewind
    \/ undo_all_delete /\ RefRewindAll

SpecAlias ==
    InitAlias
      /\ [][AliasNext /\ UNCHANGED <<prev, bufVars, pasteVars, snap_limit>>]_vars

----------------------------------------------------------------------------
(* Specification of the clipboard across deletion, undo and reordering *)

FrameNext ==
    \/ select_all_lines /\ UNCHANGED pasteVars
    \/ \E inds \in IndexTuples : delete_lines_by_inds(inds) /\ UNCHANGED pasteVars
    \/ delete_all_lines /\ UNCHANGED pasteVars
    \/ interactive_delete /\ UNCHANGED pasteVars
    \/ \E artist \in Artists : _delete_callback(artist) /\ UNCHANGED pasteVars
    \/ undo_last_delete /\ UNCHANGED pasteVars
    \/ undo_all_delete /\ UNCHANGED pasteVars
    \/ \E order \in Orders(MaxSeries) : reorder_lines(order) /\ UNCHANGED pasteVars
    \/ \E v \in Values :
          setattr_selection("linewidth", "single", <<v>>) /\ UNCHANGED pasteVars
    \/ getattr_selection("linewidth") /\ UNCHANGED pasteVars
    \/ paste_selection("ax2")

SpecFrame ==
    Init /\ [][FrameNext /\ UNCHANGED <<prev, bufVars, snap_limit, refVars>>]_vars

----------------------------------------------------------------------------
(* Specifications that also keep the call before the last one *)

UndoNext ==
    \/ \E inds \in IndexTuples : delete_lines_by_inds(inds)
    \/ undo_last_delete
    \/ \E order \in Orders(MaxSeries) : reorder_lines(order)

SpecUndo == Init /\ [][UndoNext /\ prev' = last /\ UNCHANGED restVars]_vars

\* every way of deleting, each followed by an undo
DelNext ==
    \/ select_all_lines
    \/ interactive_select
    \/ \E artist \in Artists : _select_callback(artist)
    \/ \E inds \in IndexTuples : delete_lines_by_inds(inds)
    \/ delete_selection
    \/ delete_all_lines
    \/ interactive_delete
    \/ \E artist \in Artists : _delete_callback(artist)
    \/ undo_last_delete

\* the Axes holds no line, some or all of the lines, and the buffer is driven
\* one snapshot deeper than elsewhere: a delete also starts from an empty
\* list, from a list a deletion has left, and from a buffer that holds a snapshot
InitDel == NoBuf /\ \E n \in 0..MaxSeries : InitSelector(n, MaxSnaps + 1)

SpecDel == InitDel /\ [][DelNext /\ prev' = last /\ UNCHANGED restVars]_vars

GetNext ==
    \/ \E inds \in IndexTuples : select_lines_by_inds(inds)
    \/ clear_clipboard
    \/ \E attr \in AttrNames : getattr_selection(attr)

SpecGet == Init /\ [][GetNext /\ prev' = last /\ UNCHANGED restVars]_vars

----------------------------------------------------------------------------
(* Specification of pasting the selection into the same or another Axes *)

PasteNext ==
    \/ \E sel_fn \in SelFns : select_lines(sel_fn) /\ UNCHANGED pasteVars
    \/ clear_clipboard /\ UNCHANGED pasteVars
    \/ interactive_select /\ UNCHANGED pasteVars
    \/ delete_all_lines /\ UNCHANGED pasteVars
    \/ \E v \in Values :
          setattr_selection("linewidth", "single", <<v>>) /\ UNCHANGED pasteVars
    \/ \E ax \in Axes : paste_selection(ax)

SpecPaste ==
    Init /\ [][PasteNext /\ UNCHANGED <<prev, bufVars, snap_limit, refVars>>]_vars

----------------------------------------------------------------------------
(* Properties *)

\* what a call may leave of the coordinator's observable state
SameLines == lines = last.before.lines
SameClipboard == line_clipboard = last.before.line_clipboard
SameBuffer == delete_buffer = last.before.delete_buffer
SameAttrs == attrs = last.before.attrs

\* C1: after any sequence of coordinator calls and pick events the clipboard
\* holds each line at most once, and select_lines_by_inds called again with
\* the same indices leaves the clipboard as the first call left it.
C1_ClipboardHasNoDuplicates ==
    /\ [](NoDuplicates(line_clipboard))
    /\ [][(/\ last.op = "select_lines_by_inds"
           /\ last'.op = "select_lines_by_inds"
           /\ last'.inds = last.inds)
          => line_clipboard' = line_clipboard]_vars

\* a select_lines_by_inds whose lines were all in the clipboard already
C1_Witness ==
    /\ last.op = "select_lines_by_inds"
    /\ last.result = "ok"
    /\ Len(line_clipboard) >= 2
    /\ SameClipboard
    /\ \A k \in DOMAIN last.inds : In(GetItem(lines, last.inds[k]), last.before.line_clipboard)

\* C2: delete_lines_by_inds with at least one index, directly followed by
\* undo_last_delete, leaves the list of lines as it was before the deletion
\* (same members, same order) and, unless the buffer was full, the undo
\* buffer as deep as it was.
C2_UndoRestoresDeleteByInds ==
    (/\ last.op = "undo_last_delete"
     /\ prev.op = "delete_lines_by_inds"
     /\ prev.result = "ok")
    => /\ lines = prev.before.lines
       /\ Len(prev.before.delete_buffer) < DeleteBufferMaxLen
            => Len(delete_buffer) = Len(prev.before.delete_buffer)

\* an undo right after a deletion that removed some but not all lines
C2_Witness ==
    /\ last.op = "undo_last_delete"
    /\ prev.op = "delete_lines_by_inds"
    /\ prev.result = "ok"
    /\ last.before.lines # <<>>
    /\ Len(last.before.lines) < Len(lines)

\* the stack of snapshots taken and not yet rewound, had nothing been evicted
RECURSIVE Stack(_)
Stack(log) ==
    IF log = <<>> THEN <<>>
    ELSE LET c == log[Len(log)]
             rest == Stack(PopLast(log))
         IN  IF c.op = "snapshot" THEN Append(rest, c.items)
             ELSE IF rest = <<>> THEN rest ELSE PopLast(rest)

\* the last n entries of s
Suffix(s, n) == SubSeq(s, Len(s) - n + 1, Len(s))

\* max_len + 1 snapshots followed by max_len + 1 rewinds
OverfillThenDrain ==
    /\ Len(buf_log) = 2 * (max_len + 1)
    /\ \A k \in 1..(max_len + 1) : buf_log[k].op = "snapshot"
    /\ \A k \in (max_len + 2)..Len(buf_log) : buf_log[k].op = "rewind"

\* C3: a SnapshotBuffer of capacity max_len holds between 0 and max_len
\* entries; a snapshot into a full buffer evicts the oldest entry; rewind
\* returns the entries most recent first; rewind on an empty buffer fails.
\* After max_len + 1 snapshots, max_len rewinds return the last max_len
\* snapshots in reverse and one more rewind fails.
C3_SnapshotBufferIsBoundedStack ==
    /\ buf_len >= 0 /\ buf_len <= max_len
    /\ item_snapshots = Suffix(Stack(buf_log), buf_len)
    /\ buf_log # <<>> =>
         LET c == buf_log[Len(buf_log)]
         IN  /\ (c.op = "snapshot" /\ Len(c.before) = max_len)
                  => item_snapshots = Append(Tail(c.before), c.items)
             /\ (c.op = "snapshot" /\ Len(c.before) < max_len)
                  => item_snapshots = Append(c.before, c.items)
             /\ (c.op = "rewind" /\ c.before # <<>>)
                  => /\ c.result = "ok"
                     /\ c.ret = c.before[Len(c.before)]
                     /\ item_snapshots = PopLast(c.before)
             /\ (c.op = "rewind" /\ c.before = <<>>)
                  => c.result = "IndexError" /\ item_snapshots = <<>>
    /\ OverfillThenDrain =>
         /\ \A k \in 1..max_len :
               /\ buf_log[max_len + 1 + k].result = "ok"
               /\ buf_log[max_len + 1 + k].ret = buf_log[max_len + 2 - k].items
         /\ buf_log[2 * (max_len + 1)].result = "IndexError"

\* capacity 2: three snapshots, the first unlike the second, then three rewinds
C3_Witness ==
    /\ max_len = 2
    /\ OverfillThenDrain
    /\ buf_log[1].items # buf_log[2].items
    /\ buf_log[2].items # buf_log[3].items

\* C4: undo_last_selection on an empty clipboard returns normally and leaves
\* the clipboard, the list of lines and the undo buffer unchanged.
C4_UndoSelectionOnEmptyReturns ==
    (last.op = "undo_last_selection" /\ last.before.line_clipboard = <<>>)
    => /\ last.result = "ok"
       /\ SameClipboard /\ SameLines /\ SameBuffer

\* C5: undo_last_delete on an empty undo buffer returns normally and leaves
\* the list of lines, the clipboard and the empty buffer unchanged.
C5_UndoDeleteOnEmptyReturns ==
    (last.op = "undo_last_delete" /\ last.before.delete_buffer = <<>>)
    => /\ last.result = "ok"
       /\ SameLines /\ SameClipboard /\ delete_buffer = <<>>

\* an undo on an empty buffer while lines are selected
C5_Witness ==
    /\ last.op = "undo_last_delete"
    /\ last.before.delete_buffer = <<>>
    /\ lines # <<>>
    /\ line_clipboard # <<>>

\* order is a bijection over 0..n-1: n entries, each index once
IsBijection(order, n) == Len(order) = n /\ Range(order) = 0..(n - 1)

\* C6: reorder_lines accepts an ordering only when it is a bijection over
\* 0..n-1 for the n current lines; any other ordering, also one that repeats
\* an index while covering 0..n-1, fails the assertion and leaves the list
\* of lines unchanged.
C6_ReorderRejectsNonBijection ==
    last.op = "reorder_lines" =>
        IF IsBijection(last.inds, Len(last.before.lines))
        THEN last.result = "ok"
        ELSE last.result = "AssertionError" /\ SameLines

\* C7: after reorder_lines(p) for a bijection p over 0..n-1 the line that was
\* at position i is at position p[i], the list has the same n members, and
\* the clipboard and the undo buffer are unchanged.
C7_ReorderMovesEachLine ==
    (last.op = "reorder_lines" /\ IsBijection(last.inds, Len(last.before.lines)))
    => /\ last.result = "ok"
       /\ Len(lines) = Len(last.before.lines)
       /\ \A i \in DOMAIN last.inds : lines[last.inds[i] + 1] = last.before.lines[i]
       /\ Range(lines) = Range(last.before.lines)
       /\ NoDuplicates(lines)
       /\ SameClipboard /\ SameBuffer

\* a reordering of three lines that is not its own inverse, with lines
\* selected and a snapshot buffered
C7_Witness ==
    /\ last.op = "reorder_lines"
    /\ last.result = "ok"
    /\ Len(lines) = 3
    /\ \E i \in DOMAIN last.inds : last.inds[last.inds[i] + 1] # i - 1
    /\ line_clipboard # <<>>
    /\ delete_buffer # <<>>

\* the calls that fail by an invalid argument: no index given, or a tuple of
\* values not as long as the clipboard
FailedInvalidArgument ==
    \/ /\ last.op \in {"select_lines_by_inds", "delete_lines_by_inds"}
       /\ last.result = "ValueError"
    \/ /\ last.op = "setattr_selection"
       /\ last.attr \in LINE_PROPERTIES
       /\ last.result = "AssertionError"

\* C8: a call that fails by an invalid argument has changed nothing: the
\* list of lines, the clipboard, the undo buffer and every line property are
\* as before the call, and no redraw was requested.
C8_InvalidArgumentMutatesNothing ==
    FailedInvalidArgument
    => SameLines /\ SameClipboard /\ SameBuffer /\ SameAttrs /\ last.redraws = 0

\* a tuple of two values refused for a clipboard of one line
C8_Witness ==
    /\ last.op = "setattr_selection"
    /\ last.result = "AssertionError"
    /\ last.attr \in LINE_PROPERTIES
    /\ Len(last.vals) = 2
    /\ Len(line_clipboard) = 1

\* C9: setattr_selection(attr, value) for attr in LINE_PROPERTIES and a
\* clipboard of k lines sets the property of every clipboard line to value
\* (a single value), of the i-th line to value[i] (a tuple of k values), or
\* of the i-th line to value(line_i, i) (a callable, called once per line);
\* a tuple of another length fails; lines outside the clipboard keep their
\* properties.
C9_SetattrAssignsPerKind ==
    (last.op = "setattr_selection" /\ last.attr \in LINE_PROPERTIES)
    => LET k == Len(line_clipboard)
           assigned(v) ==
               /\ last.result = "ok"
               /\ \A i \in 1..k : attrs[line_clipboard[i]][last.attr] = v[i]
       IN  /\ last.vkind = "single"
             => assigned([i \in 1..k |-> last.vals[1]])
           /\ (last.vkind = "tuple" /\ Len(last.vals) = k)
             => assigned(last.vals)
           /\ (last.vkind = "tuple" /\ Len(last.vals) # k)
             => last.result = "AssertionError"
           /\ last.vkind = "callable"
             => /\ assigned([i \in 1..k |-> Fn(line_clipboard[i], i - 1)])
                /\ last.calls = [i \in 1..k |-> <<line_clipboard[i], i - 1>>]
           /\ \A a \in Artists \ Range(line_clipboard) : attrs[a] = last.before.attrs[a]

\* a tuple of two different values assigned to a clipboard of two lines
C9_Witness ==
    /\ last.op = "setattr_selection"
    /\ last.result = "ok"
    /\ last.vkind = "tuple"
    /\ Len(line_clipboard) = 2
    /\ last.vals[1] # last.vals[2]
    /\ attrs[line_clipboard[1]]["linewidth"] # attrs[line_clipboard[2]]["linewidth"]

\* indices in 0..n-1, none given twice
ValidIndexSet(inds, n) ==
    /\ inds # <<>>
    /\ \A k \in DOMAIN inds : inds[k] >= 0 /\ inds[k] < n
    /\ NoDuplicates(inds)

\* the property values of the lines at the given indices, in the given order
ValuesAt(inds, attr) == [k \in DOMAIN inds |-> attrs[lines[inds[k] + 1]][attr]]

\* getattr_selection called right after a select_lines_by_inds of valid indices
GetAfterSelect ==
    /\ last.op = "getattr_selection"
    /\ last.result = "ok"
    /\ prev.op = "select_lines_by_inds"
    /\ prev.result = "ok"
    /\ ValidIndexSet(prev.inds, Len(lines))

\* C10 as claimed: select_lines_by_inds(inds) followed by getattr_selection
\* returns the values in the order of inds, as many as there are indices.
C10_GetattrFollowsIndices ==
    GetAfterSelect
    => Len(last.ret) = Len(prev.inds) /\ last.ret = ValuesAt(prev.inds, last.attr)

\* C10 amended: the same, when the clipboard was empty before
\* select_lines_by_inds was called.
C10_GetattrFollowsIndicesFromEmpty ==
    (GetAfterSelect /\ prev.before.line_clipboard = <<>>)
    => Len(last.ret) = Len(prev.inds) /\ last.ret = ValuesAt(prev.inds, last.attr)

\* two lines selected last line first into an empty clipboard, then read
C10_Witness ==
    /\ GetAfterSelect
    /\ prev.before.line_clipboard = <<>>
    /\ Len(prev.inds) = 2
    /\ prev.inds[1] > prev.inds[2]
    /\ Len(last.ret) = 2

\* C11: paste_selection(ax) returns a new coordinator bound to ax whose
\* clipboard holds exactly the newly created lines, as many as the source
\* clipboard and in its order; the i-th new line has the data of the i-th
\* clipboard line and, for every property of LINE_PROPERTIES, the value that
\* line had when the call was made; the new lines, one per clipboard entry,
\* are appended to ax.lines.
C11_PasteCopiesClipboard ==
    last.op = "paste_selection" =>
        LET src == last.before.line_clipboard
            new == new_sel.line_clipboard
            target == IF last.ax = "ax" THEN lines ELSE ax2_lines
            targetBefore == IF last.ax = "ax" THEN last.before.lines
                            ELSE last.before.ax2_lines
        IN  /\ last.result = "ok"
            /\ new_sel.ax = last.ax
            /\ new_sel.delete_buffer = <<>> /\ new_sel.cid = None
            /\ Len(new) = Len(src)
            /\ NoDuplicates(new)
            /\ Range(new) \cap DOMAIN last.before.attrs = {}
            /\ target = targetBefore \o new
            /\ \A i \in DOMAIN src :
                  /\ data[new[i]] = data[src[i]]
                  /\ \A p \in LINE_PROPERTIES \cap DOMAIN attrs[new[i]] :
                        attrs[new[i]][p] = last.before.attrs[src[i]][p]
                  /\ DOMAIN attrs[new[i]] = DOMAIN last.before.attrs[src[i]]

\* two selected lines whose linewidths were set apart, pasted into the
\* second Axes
C11_Witness ==
    /\ last.op = "paste_selection"
    /\ last.ax = "ax2"
    /\ Len(new_sel.line_clipboard) = 2
    /\ LET a == line_clipboard[1]
           b == line_clipboard[2]
       IN  /\ attrs[a]["linewidth"] # InitAttrs[a]["linewidth"]
           /\ attrs[a]["linewidth"] # attrs[b]["linewidth"]

\* what paste_selection leaves of the source coordinator whatever the target
PasteKeepsSource ==
    /\ SameClipboard /\ SameBuffer
    /\ cid = last.before.cid
    /\ callbacks = last.before.callbacks

\* C12 as claimed: paste_selection(ax) leaves the source coordinator's
\* clipboard, the list of lines of its Axes, its undo buffer and its callback
\* registration unchanged for every ax, self.ax included.
C12_PasteLeavesSource ==
    last.op = "paste_selection" => PasteKeepsSource /\ SameLines

\* C12 amended: the clipboard, the undo buffer and the callback registration
\* are unchanged for every ax; the list of lines of the source's Axes is
\* unchanged when ax is another Axes, and gains the new lines when ax is
\* self.ax.
C12_PasteLeavesSourceOfOtherAxes ==
    last.op = "paste_selection" =>
        /\ PasteKeepsSource
        /\ last.ax # "ax" => SameLines
        /\ last.ax = "ax" => lines = last.before.lines \o new_sel.line_clipboard

\* a paste into the second Axes by a coordinator that holds a selection, a
\* buffered snapshot and a registered callback
C12_Witness ==
    /\ last.op = "paste_selection"
    /\ last.ax = "ax2"
    /\ line_clipboard # <<>>
    /\ delete_buffer # <<>>
    /\ cid # None
    /\ Len(ax2_lines) > Len(last.before.ax2_lines)

\* the canvas holds exactly the registrations hs of this coordinator
Registered(hs) ==
    \A h \in DOMAIN callbacks : callbacks[h] = IF h \in hs THEN 1 ELSE 0

\* C13: after any sequence of interactive_select, interactive_delete and
\* disable_interactive (and any other calls) the coordinator has at most one
\* pick callback registered: none after disable_interactive, which changes
\* nothing when none was held, otherwise the callback of the mode enabled
\* last.  A pick event therefore reaches _select_callback or
\* _delete_callback, never both, and interactive_select followed by
\* interactive_delete leaves only _delete_callback.
C13_AtMostOneCallback ==
    /\ [](/\ Registered(IF cid = None THEN {} ELSE {cid})
          /\ ~(ENABLED (\E a \in Artists : _select_callback(a))
                 /\ ENABLED (\E a \in Artists : _delete_callback(a)))
          /\ last.op = "interactive_select" => Registered({"_select_callback"})
          /\ last.op = "interactive_delete" => Registered({"_delete_callback"})
          /\ last.op = "disable_interactive" =>
                /\ Registered({})
                /\ last.before.cid = None => callbacks = last.before.callbacks
          /\ last.op = "_select_callback" =>
                last.before.callbacks["_delete_callback"] = 0
          /\ last.op = "_delete_callback" =>
                last.before.callbacks["_select_callback"] = 0)
    /\ [][(/\ last'.op \notin {"interactive_select", "interactive_delete",
                                "disable_interactive"})
          => callbacks' = callbacks /\ cid' = cid]_vars
    /\ [][(last.op = "interactive_select" /\ last'.op = "interactive_delete")
          => Registered({"_delete_callback"})']_vars

\* interactive_delete called while the select callback was registered and
\* had put a picked line into the clipboard
C13_Witness ==
    /\ last.op = "interactive_delete"
    /\ last.before.cid = "_select_callback"
    /\ last.before.callbacks["_select_callback"] = 1
    /\ callbacks["_delete_callback"] = 1
    /\ line_clipboard # <<>>

\* the calls that change the list of lines of an Axes or a line property
MutatingOps ==
    {"delete_lines_by_inds", "delete_selection", "delete_all_lines",
     "_delete_callback", "undo_last_delete", "undo_all_delete",
     "reorder_lines", "setattr_selection", "paste_selection"}

\* C14: every call that changed the list of lines or a property of a selected
\* line has requested exactly one redraw before returning, however many lines
\* it touched; delete_selection and delete_all_lines request one redraw for
\* the whole batch.
C14_OneRedrawPerCall ==
    (/\ last.op \in MutatingOps
     /\ last.result = "ok"
     /\ ~(SameLines /\ SameAttrs /\ ax2_lines = last.before.ax2_lines))
    => last.redraws = 1

\* a select_lines_by_inds call that was given at least one index
SelectedByInds == last.op = "select_lines_by_inds" /\ last.inds # <<>>

\* the positions of last.inds that the predicate bad(i) rejects
Rejected(bad(_)) == {k \in DOMAIN last.inds : bad(last.inds[k])}

\* the least element of a non-empty set of positions
Least(S) == CHOOSE k \in S : \A j \in S : k <= j

\* the lines the call has put into the clipboard when it stops at the first
\* rejected position and reads index i as the position at(i)
AddedUpTo(bad(_), at(_)) ==
    LET stop == IF Rejected(bad) = {} THEN Len(last.inds) + 1
                ELSE Least(Rejected(bad))
    IN  Range(last.before.line_clipboard)
          \cup {last.before.lines[at(last.inds[j])] : j \in 1..(stop - 1)}

\* C15 as claimed: select_lines_by_inds given an index outside 0..n-1 for the
\* n current lines, a negative index included, fails with IndexError and adds
\* no line for that index.
C15_IndexOutsideZeroToNFails ==
    LET n == Len(last.before.lines)
        bad(i) == i < 0 \/ i >= n
        at(i) == i + 1
    IN  (SelectedByInds /\ Rejected(bad) # {})
        => /\ last.result = "IndexError"
           /\ Range(line_clipboard) = AddedUpTo(bad, at)

\* C15 amended: select_lines_by_inds fails with IndexError exactly when an
\* index is outside -n..n-1, adding the lines of the indices before it and
\* none for it; an index i in -n..-1 selects the line at position n + i.
C15_IndexOutsidePythonRangeFails ==
    LET n == Len(last.before.lines)
        bad(i) == i < -n \/ i >= n
        at(i) == IF i < 0 THEN n + i + 1 ELSE i + 1
    IN  SelectedByInds
        => /\ last.result = (IF Rejected(bad) # {} THEN "IndexError" ELSE "ok")
           /\ Range(line_clipboard) = AddedUpTo(bad, at)
           /\ SameLines

\* the index -1 has selected the last of two lines, then an index past the
\* end has failed the call
C15_Witness ==
    /\ SelectedByInds
    /\ Len(lines) = 2
    /\ last.inds = <<-1, 2>>
    /\ last.result = "IndexError"
    /\ last.before.line_clipboard = <<>>
    /\ line_clipboard = <<lines[2]>>

\* the k-th smallest element of a set P of positions
Kth(P, k) == CHOOSE m \in P : Cardinality({j \in P : j < m}) = k - 1

\* the entries of s at the positions P, in the order of s
Restrict(s, P) == [k \in 1..Cardinality(P) |-> s[Kth(P, k)]]

\* C16: delete_lines_by_inds with at least one index removes exactly the
\* lines whose position in the list is one of the indices, keeps the other
\* lines in their order, ignores an index that is no position of the list
\* (no error), and has pushed a snapshot of the whole list as it was.
C16_DeleteByIndsRemovesPositions ==
    (last.op = "delete_lines_by_inds" /\ last.inds # <<>>)
    => LET old == last.before.lines
           kept == {k \in DOMAIN old : ~In(k - 1, last.inds)}
       IN  /\ last.result = "ok"
           /\ lines = Restrict(old, kept)
           /\ Len(last.before.delete_buffer) < DeleteBufferMaxLen
                => delete_buffer = Append(last.before.delete_buffer, old)
           /\ SameClipboard

\* of three lines the middle one is deleted; the index -1 given with it is
\* no position and is ignored
C16_Witness ==
    /\ last.op = "delete_lines_by_inds"
    /\ last.inds = <<-1, 1>>
    /\ Len(last.before.lines) = 3
    /\ lines = <<last.before.lines[1], last.before.lines[3]>>
    /\ line_clipboard # <<>>

\* the indices 0..n-1 in ascending order
AllIndices(n) == [k \in 1..n |-> k - 1]

\* select_all_lines has done what select_lines_by_inds(0, .., n-1) does from
\* the same state, and select_lines_by_inds(0, .., n-1) what select_all_lines does
SelectAllIsSelectByAllInds ==
    LET old == last.before.lines
        all == AllIndices(Len(old))
    IN  /\ last.op = "select_all_lines"
          => LET r == SelectByInds(last.before.line_clipboard, old, all)
             IN  line_clipboard = r.clip /\ last.result = r.result
        /\ (last.op = "select_lines_by_inds" /\ last.inds = all)
          => /\ line_clipboard
                  = AddWhere(last.before.line_clipboard, old, Range(old))
             /\ last.result = "ok"

\* C17 as claimed: for every list of lines, the empty list included, and
\* every clipboard, select_all_lines and select_lines_by_inds(0, .., n-1)
\* leave the same clipboard and end the same way.
C17_SelectAllIsSelectByAllInds == SelectAllIsSelectByAllInds

\* C17 amended: the same for every non-empty list of lines.
C17_SelectAllIsSelectByAllIndsNonEmpty ==
    last.before.lines # <<>> => SelectAllIsSelectByAllInds

\* select_all_lines on two lines of which the second was in the clipboard
C17_Witness ==
    /\ last.op = "select_all_lines"
    /\ Len(lines) = 2
    /\ last.before.line_clipboard = <<lines[2]>>
    /\ line_clipboard = <<lines[2], lines[1]>>

\* C18: delete_selection removes from the list every line that is in the
\* clipboard when it is called, taking the clipboard entries first in first;
\* an entry that is no longer in the list is skipped and the entries after it
\* are still removed; the lines not in the clipboard keep their order.
C18_DeleteSelectionSkipsMissing ==
    last.op = "delete_selection"
    => LET old == last.before.lines
           clip == last.before.line_clipboard
       IN  /\ last.result = "ok"
           /\ last.calls = clip
           /\ Range(lines) = Range(old) \ Range(clip)
           /\ lines = Restrict(old, {k \in DOMAIN old : ~In(old[k], clip)})

\* the first clipboard entry was not in the list, the second was and is
\* removed, and another line stays
C18_Witness ==
    /\ last.op = "delete_selection"
    /\ Len(last.before.line_clipboard) = 2
    /\ ~In(last.before.line_clipboard[1], last.before.lines)
    /\ In(last.before.line_clipboard[2], last.before.lines)
    /\ ~In(last.before.line_clipboard[2], lines)
    /\ lines # <<>>

\* C19: undo_all_delete rewinds every buffered snapshot, so that on return
\* the list of lines is the oldest snapshot the buffer held and the buffer is
\* empty; on an empty buffer the list is unchanged and no error is raised.
\* After more snapshots than the capacity of 25, the list restored is the
\* oldest snapshot retained, not the list the first snapshot was taken of.
C19_UndoAllRestoresOldestRetained ==
    last.op = "undo_all_delete"
    => /\ last.result = "ok"
       /\ delete_buffer = <<>>
       /\ lines = IF last.before.delete_buffer = <<>> THEN last.before.lines
                  ELSE last.before.delete_buffer[1]
       /\ Len(last.before.delete_buffer) <= DeleteBufferMaxLen
       /\ SameClipboard

\* undo_all_delete on a full buffer whose oldest snapshot is no longer the
\* list the coordinator was constructed on (that snapshot was evicted) and
\* differs from the most recent one
C19_Witness ==
    /\ last.op = "undo_all_delete"
    /\ Len(last.before.delete_buffer) = DeleteBufferMaxLen
    /\ lines # [i \in 1..MaxSeries |-> i]
    /\ lines # last.before.delete_buffer[DeleteBufferMaxLen]
    /\ lines # last.before.lines

\* a delete call that got past its argument check
Deleted(call) ==
    /\ call.op \in {"delete_lines_by_inds", "delete_selection",
                    "delete_all_lines", "_delete_callback"}
    /\ call.result = "ok"

\* C20: delete_lines_by_inds with at least one index, delete_selection,
\* delete_all_lines and every delete-mode pick push exactly one snapshot, the
\* list of lines as it was before the call, also when nothing is removed;
\* undo_last_delete right after any of them restores that list, and
\* delete_all_lines leaves the list empty.
C20_EveryDeleteSnapshotsFirst ==
    /\ Deleted(last)
         => /\ Len(last.before.delete_buffer) < DeleteBufferMaxLen
                 => delete_buffer
                      = Append(last.before.delete_buffer, last.before.lines)
            /\ rewind(delete_buffer) = last.before.lines
    /\ (last.op = "undo_last_delete" /\ Deleted(prev))
         => /\ lines = prev.before.lines
            /\ delete_buffer = prev.before.delete_buffer
    /\ last.op = "delete_all_lines" => lines = <<>>

\* delete_all_lines on a list that a deletion had emptied, with the snapshot
\* of that deletion in the buffer, and an undo_last_delete right after it:
\* nothing was removed, a second snapshot (the empty list) was pushed and
\* popped again, and the earlier snapshot is still in the buffer
C20_Witness ==
    /\ last.op = "undo_last_delete"
    /\ prev.op = "delete_all_lines"
    /\ prev.before.lines = <<>>
    /\ Len(prev.before.delete_buffer) = 1
    /\ prev.before.delete_buffer[1] # <<>>
    /\ last.before.delete_buffer = Append(prev.before.delete_buffer, <<>>)
    /\ delete_buffer = prev.before.delete_buffer
    /\ lines = <<>>

\* C21: a stored snapshot is a list of its own: no later call on the list of
\* lines (removal in place by delete_selection, delete_all_lines or a
\* delete-mode pick, a new list by delete_lines_by_inds, reorder_lines or an
\* undo) changes the members or the order of a snapshot still in the buffer,
\* and the list restored by undo_last_delete is none of the snapshots that
\* remain in the buffer.
C21_SnapshotsAreIndependentCopies ==
    /\ [](/\ ax_ref \notin Range(buf_refs)
          /\ NoDuplicates(buf_refs)
          /\ lines = heap[ax_ref]
          /\ delete_buffer = [k \in DOMAIN buf_refs |-> heap[buf_refs[k]]])
    /\ [][\A r \in Range(buf_refs) \cap Range(buf_refs') : heap'[r] = heap[r]]_vars

\* a delete-mode pick has removed a line in place while the buffer holds two
\* snapshots that differ from each other and from the list
C21_Witness ==
    /\ last.op = "_delete_callback"
    /\ Len(buf_refs) = 2
    /\ heap[buf_refs[1]] # heap[buf_refs[2]]
    /\ heap[ax_ref] # heap[buf_refs[2]]
    /\ Len(lines) < Len(last.before.lines)

\* C22: delete_selection leaves the clipboard empty, whether or not its
\* entries were still in the list of lines, and undo_last_delete right after
\* it restores the list of lines but not the clipboard, which stays empty.
C22_DeleteSelectionConsumesClipboard ==
    /\ last.op = "delete_selection"
         => line_clipboard = <<>> /\ last.result = "ok"
    /\ (last.op = "undo_last_delete" /\ prev.op = "delete_selection")
         => /\ lines = prev.before.lines
            /\ line_clipboard = <<>>

\* a clipboard of a line that was in the list and one that was not is
\* deleted and the deletion undone
C22_Witness ==
    /\ last.op = "undo_last_delete"
    /\ prev.op = "delete_selection"
    /\ \E a \in Range(prev.before.line_clipboard) : In(a, prev.before.lines)
    /\ \E a \in Range(prev.before.line_clipboard) : ~In(a, prev.before.lines)
    /\ lines # last.before.lines
    /\ line_clipboard = <<>>

\* the calls that change the list of lines and have no business with the
\* clipboard
ListOnlyOps ==
    {"delete_lines_by_inds", "delete_all_lines", "_delete_callback",
     "undo_last_delete", "undo_all_delete", "reorder_lines"}

\* C23: delete_lines_by_inds, delete_all_lines, a delete-mode pick,
\* undo_last_delete, undo_all_delete and reorder_lines leave the clipboard
\* unchanged; the clipboard can therefore hold lines that are no longer in the
\* list of lines, and setattr_selection, getattr_selection and
\* paste_selection work on those lines as on any other.
C23_ListCallsLeaveClipboard ==
    /\ last.op \in ListOnlyOps => SameClipboard
    /\ (last.op = "setattr_selection" /\ last.attr \in LINE_PROPERTIES)
         => /\ last.result = "ok"
            /\ \A a \in Range(line_clipboard) : attrs[a][last.attr] = last.vals[1]
    /\ (last.op = "getattr_selection" /\ last.attr \in LINE_PROPERTIES)
         => /\ last.result = "ok"
            /\ last.ret = [k \in DOMAIN line_clipboard |->
                              attrs[line_clipboard[k]][last.attr]]
    /\ last.op = "paste_selection"
         => /\ last.result = "ok"
            /\ Len(new_sel.line_clipboard) = Len(line_clipboard)
            /\ \A k \in DOMAIN line_clipboard :
                  /\ attrs[new_sel.line_clipboard[k]] = attrs[line_clipboard[k]]
                  /\ data[new_sel.line_clipboard[k]] = data[line_clipboard[k]]

\* no selected line is in the list of lines any more; their linewidth has
\* been set and they are pasted into the second Axes
C23_Witness ==
    /\ last.op = "paste_selection"
    /\ Len(line_clipboard) = 2
    /\ lines = <<>>
    /\ \A k \in DOMAIN line_clipboard :
          /\ attrs[line_clipboard[k]]["linewidth"] \in Values
          /\ In(new_sel.line_clipboard[k], ax2_lines)

====
